---- MODULE Spec2Model ----
(***************************************************************************)
(* Model of postgres_geometry: the value types Point, Line and Circle      *)
(* (types.py), the Django fields that write them to and read them from     *)
(* their PostgreSQL text form (fields.py), and the point-list splitter and *)
(* the database-engine guard of the fields (utils.py).                     *)
(*                                                                         *)
(* Text is a sequence of one-character strings.  A Python float is the     *)
(* record [s, m, e] standing for s * m * 10^e, where m * 10^e is the       *)
(* shortest decimal that repr() prints for it (m has no trailing zero).    *)
(***************************************************************************)
EXTENDS Integers, Sequences, FiniteSets, TLC

VARIABLES
    field,   \* the geometry type in use: "" until one is, then its db_type name
             \* ("PointMixin" for the mixin on its own)
    closed,  \* PathField.closed of the field
    call_args, \* the arguments of the constructor call, if the value was constructed
    value,   \* the outcome of building the in-memory value
    writer,  \* what produced the text: "", "__str__", "get_prep_value", "db" (a
             \* stored row) or "input" (a text handed to the parser)
    prep,    \* the outcome of writing the value as text
    reader,  \* what parsed the text: "", "from_string", "to_python" or "findall"
    py,      \* the outcome of parsing the text
    connection,  \* the connection db_type was called with
    column_type, \* the outcome of the field's db_type
    raw,     \* a value handed to the field as it is: text, typed value, tuple or number
    cleaned, \* the outcome of the field's to_python on raw
    saved    \* the outcome of the field's get_prep_value on raw

vars == <<field, closed, call_args, value, writer, prep, reader, py, connection, column_type,
          raw, cleaned, saved>>

----------------------------------------------------------------------------
(* Bounds *)

\* Longest point list that is assigned to a multi-point field.
MaxLen == 3

----------------------------------------------------------------------------
(* Characters and text *)

Digit == {"0", "1", "2", "3", "4", "5", "6", "7", "8", "9"}

DigitChar(d) == <<"0", "1", "2", "3", "4", "5", "6", "7", "8", "9">>[d + 1]

DigitVal(c) == CHOOSE d \in 0..9 : DigitChar(d) = c

IsSpace(c) == c = " "

RECURSIVE Join(_, _)
\* sep.join(parts)
Join(parts, sep) ==
    IF parts = <<>> THEN <<>>
    ELSE IF Len(parts) = 1 THEN parts[1]
    ELSE parts[1] \o sep \o Join(Tail(parts), sep)

RECURSIVE Zeros(_)
Zeros(n) == IF n <= 0 THEN <<>> ELSE <<"0">> \o Zeros(n - 1)

RECURSIVE Pow10(_)
Pow10(n) == IF n <= 0 THEN 1 ELSE 10 * Pow10(n - 1)

RECURSIVE Digits(_)
\* the decimal digits of the natural number m, most significant first
Digits(m) == IF m < 10 THEN <<DigitChar(m)>> ELSE Digits(m \div 10) \o <<DigitChar(m % 10)>>

\* str.strip(): first and last index of the text without surrounding blanks
StripLo(s) ==
    IF \E i \in 1..Len(s) : ~IsSpace(s[i])
    THEN CHOOSE i \in 1..Len(s) : ~IsSpace(s[i]) /\ \A j \in 1..(i - 1) : IsSpace(s[j])
    ELSE 1

StripHi(s) ==
    IF \E i \in 1..Len(s) : ~IsSpace(s[i])
    THEN CHOOSE i \in 1..Len(s) : ~IsSpace(s[i]) /\ \A j \in (i + 1)..Len(s) : IsSpace(s[j])
    ELSE 0

Strip(s) == SubSeq(s, StripLo(s), StripHi(s))

----------------------------------------------------------------------------
(* Floats *)

Float(s, m, e) == [s |-> s, m |-> m, e |-> e]

FZero == Float(1, 0, 0)

IsZero(f) == f.m = 0

\* a == b on floats: 0.0 == -0.0
FloatEq(a, b) == (a.m = 0 /\ b.m = 0) \/ a = b

\* position of the decimal point relative to the first digit of m
DecPt(f) == Len(Digits(f.m)) + f.e

MagLt(a, b) ==
    IF a.m = 0 THEN b.m # 0
    ELSE IF b.m = 0 THEN FALSE
    ELSE IF DecPt(a) # DecPt(b) THEN DecPt(a) < DecPt(b)
    ELSE LET ka == Len(Digits(a.m))
             kb == Len(Digits(b.m))
             k  == IF ka > kb THEN ka ELSE kb
         IN  a.m * Pow10(k - ka) < b.m * Pow10(k - kb)

\* a < b on floats
FloatLt(a, b) ==
    IF a.m = 0 THEN b.m # 0 /\ b.s = 1
    ELSE IF a.s = -1 THEN (b.m = 0 \/ b.s = 1 \/ MagLt(b, a))
    ELSE b.m # 0 /\ b.s = 1 /\ MagLt(a, b)

\* str(f) for a float f: repr() prints the shortest digits, in exponent
\* notation when the decimal point is more than 16 places right or 4 or more
\* places left of the first digit, and with ".0" added to a whole number.
FloatStr(f) ==
    LET ds   == Digits(f.m)
        k    == Len(ds)
        dp   == k + f.e
        sign == IF f.s = -1 THEN <<"-">> ELSE <<>>
        x    == dp - 1
        ax   == IF x < 0 THEN 0 - x ELSE x
        xs   == IF ax < 10 THEN <<"0">> \o Digits(ax) ELSE Digits(ax)
    IN  IF dp <= -4 \/ dp > 16
        THEN sign \o <<ds[1]>>
                  \o (IF k > 1 THEN <<".">> \o SubSeq(ds, 2, k) ELSE <<>>)
                  \o <<"e", IF x < 0 THEN "-" ELSE "+">> \o xs
        ELSE IF dp <= 0 THEN sign \o <<"0", ".">> \o Zeros(0 - dp) \o ds
        ELSE IF dp >= k THEN sign \o ds \o Zeros(dp - k) \o <<".", "0">>
        ELSE sign \o SubSeq(ds, 1, dp) \o <<".">> \o SubSeq(ds, dp + 1, k)

RECURSIVE DigitsVal(_)
DigitsVal(ds) ==
    IF ds = <<>> THEN 0
    ELSE 10 * DigitsVal(SubSeq(ds, 1, Len(ds) - 1)) + DigitVal(ds[Len(ds)])

RECURSIVE Normalize(_, _)
\* drop the trailing zeros of a digit string, raising the exponent
Normalize(ds, e) ==
    IF ds = <<>> THEN [m |-> 0, e |-> 0]
    ELSE IF ds[Len(ds)] = "0" THEN Normalize(SubSeq(ds, 1, Len(ds) - 1), e + 1)
    ELSE [m |-> DigitsVal(ds), e |-> e]

\* float(t) for a text t that a numeric pattern has matched:
\* an optional "-", digits, an optional "." and digits
PyFloat(t) ==
    LET neg  == t # <<>> /\ t[1] = "-"
        body == IF neg THEN Tail(t) ELSE t
        dot  == IF \E i \in 1..Len(body) : body[i] = "."
                THEN CHOOSE i \in 1..Len(body) : body[i] = "."
                ELSE Len(body) + 1
        int  == SubSeq(body, 1, dot - 1)
        frac == SubSeq(body, dot + 1, Len(body))
        n    == Normalize(int \o frac, 0 - Len(frac))
    IN  Float(IF neg THEN -1 ELSE 1, n.m, n.e)

----------------------------------------------------------------------------
(* Regular expressions.  Every pattern below is followed by a literal that  *)
(* no digit, "." or blank matches, so the greedy match is the only match.   *)

RECURSIVE SkipDigits(_, _)
\* \d* from index i: the index after the last digit
SkipDigits(s, i) ==
    IF i <= Len(s) /\ s[i] \in Digit THEN SkipDigits(s, i + 1) ELSE i

RECURSIVE SkipSpace(_, _)
\* \s* from index i
SkipSpace(s, i) ==
    IF i <= Len(s) /\ IsSpace(s[i]) THEN SkipSpace(s, i + 1) ELSE i

\* _FLOAT_RE = -?(?:\d+(?:\.\d*)?|\.\d+) at index i: the index after the
\* match, or 0 when there is none
FLOAT_RE(s, i) ==
    LET j0 == IF i <= Len(s) /\ s[i] = "-" THEN i + 1 ELSE i
        j1 == SkipDigits(s, j0)
    IN  IF j1 > j0
        THEN IF j1 <= Len(s) /\ s[j1] = "." THEN SkipDigits(s, j1 + 1) ELSE j1
        ELSE IF j0 <= Len(s) /\ s[j0] = "." /\ SkipDigits(s, j0 + 1) > j0 + 1
             THEN SkipDigits(s, j0 + 1)
             ELSE 0

\* the number pattern the fields spell out, -?\d+(?:\.\d*)?
FIELD_NUM_RE(s, i) ==
    LET j0 == IF i <= Len(s) /\ s[i] = "-" THEN i + 1 ELSE i
        j1 == SkipDigits(s, j0)
    IN  IF j1 > j0
        THEN IF j1 <= Len(s) /\ s[j1] = "." THEN SkipDigits(s, j1 + 1) ELSE j1
        ELSE 0

NoMatch == [end |-> 0, g |-> <<>>]

\* the number pattern named num at index i
NumRe(num, s, i) == IF num = "_FLOAT_RE" THEN FLOAT_RE(s, i) ELSE FIELD_NUM_RE(s, i)

\* The pieces a pattern is made of: a literal character, \s*, and a group
\* that captures a number pattern.
Ch(c) == [k |-> "lit", c |-> c]

Ws == [k |-> "ws", c |-> ""]

Group(num) == [k |-> "group", c |-> num]

\* \(\s*(?P<x>_FLOAT_RE)\s*,\s*(?P<y>_FLOAT_RE)\s*\)
POINT_RE ==
    <<Ch("("), Ws, Group("_FLOAT_RE"), Ws, Ch(","), Ws, Group("_FLOAT_RE"), Ws, Ch(")")>>

\* ^\{\s*(?P<A>_FLOAT_RE)\s*,\s*(?P<B>_FLOAT_RE)\s*,\s*(?P<C>_FLOAT_RE)\s*\}$
LINE_RE ==
    <<Ch("{"), Ws, Group("_FLOAT_RE"), Ws, Ch(","), Ws, Group("_FLOAT_RE"), Ws, Ch(","),
      Ws, Group("_FLOAT_RE"), Ws, Ch("}")>>

\* <\((?P<x>_FLOAT_RE),(?P<y>_FLOAT_RE)\),\s*(?P<r>_FLOAT_RE)>
CIRCLE_RE ==
    <<Ch("<"), Ch("("), Group("_FLOAT_RE"), Ch(","), Group("_FLOAT_RE"), Ch(")"), Ch(","),
      Ws, Group("_FLOAT_RE"), Ch(">")>>

\* the point pattern each multi-point field compiles in its to_python:
\* \(\s*(-?\d+(?:\.\d*)?)\s*,\s*(-?\d+(?:\.\d*)?)\s*\)
point_re ==
    <<Ch("("), Ws, Group("field"), Ws, Ch(","), Ws, Group("field"), Ws, Ch(")")>>

RECURSIVE Match(_, _, _, _)
\* the match of the pattern pat at index i of s, g being the groups captured
\* so far: the index after the match and the groups' texts, or NoMatch
Match(pat, s, i, g) ==
    IF pat = <<>> THEN [end |-> i, g |-> g]
    ELSE IF Head(pat).k = "lit"
    THEN IF i <= Len(s) /\ s[i] = Head(pat).c THEN Match(Tail(pat), s, i + 1, g)
         ELSE NoMatch
    ELSE IF Head(pat).k = "ws" THEN Match(Tail(pat), s, SkipSpace(s, i), g)
    ELSE LET j == NumRe(Head(pat).c, s, i)
         IN  IF j = 0 THEN NoMatch
             ELSE Match(Tail(pat), s, j, Append(g, SubSeq(s, i, j - 1)))

\* pat.fullmatch(s): the match at the start of s if it ends with s
FullMatch(pat, s) ==
    LET m == Match(pat, s, 1, <<>>)
    IN  IF m.end = Len(s) + 1 THEN m ELSE NoMatch

RECURSIVE FindAllFrom(_, _, _)
\* pat.findall(s) from index i: the groups of each match, left to right, the
\* search resuming after a match and one character on where none starts
FindAllFrom(pat, s, i) ==
    IF i > Len(s) THEN <<>>
    ELSE LET m == Match(pat, s, i, <<>>)
         IN  IF m.end = 0 THEN FindAllFrom(pat, s, i + 1)
             ELSE <<m.g>> \o FindAllFrom(pat, s, m.end)

\* PointMixin.SPLIT_RE = \((?!\().*?\) at index i: a "(" that no "(" follows
\* at once, then the fewest characters up to a ")"; the index after the
\* match, or 0
SPLIT_RE(s, i) ==
    IF /\ i <= Len(s) /\ s[i] = "("
       /\ ~(i + 1 <= Len(s) /\ s[i + 1] = "(")
       /\ \E j \in (i + 1)..Len(s) : s[j] = ")"
    THEN 1 + CHOOSE j \in (i + 1)..Len(s) :
                s[j] = ")" /\ \A k \in (i + 1)..(j - 1) : s[k] # ")"
    ELSE 0

RECURSIVE SplitFrom(_, _)
\* re.findall(SPLIT_RE, s) from index i: the texts matched, left to right
SplitFrom(s, i) ==
    IF i > Len(s) THEN <<>>
    ELSE IF SPLIT_RE(s, i) = 0 THEN SplitFrom(s, i + 1)
    ELSE <<SubSeq(s, i, SPLIT_RE(s, i) - 1)>> \o SplitFrom(s, SPLIT_RE(s, i))

----------------------------------------------------------------------------
(* Python values and call results *)

\* A value: tag names its Python type; a list or tuple holds pts, each
\* element a Point or an (x, y) pair according to elem, or nums, numbers or
\* (elem "str") texts; a Line holds nums <<A, B, C>>; a Circle holds pts <<center>> and nums <<radius>>; a Point
\* holds pts <<p>>; a float holds nums <<f>>; a str holds text.
Value(tag, elem, pts, nums, text) ==
    [tag |-> tag, elem |-> elem, pts |-> pts, nums |-> nums, text |-> text]

None == Value("None", "", <<>>, <<>>, <<>>)

StrV(t) == Value("str", "", <<>>, <<>>, t)

NumV(f) == Value("float", "", <<>>, <<f>>, <<>>)

PointV(p) == Value("Point", "", <<p>>, <<>>, <<>>)

ListV(pts) == Value("list", "Point", pts, <<>>, <<>>)

\* a call's outcome: the value returned, or the exception raised
Return(v) == [exc |-> "", msg |-> "", val |-> v]

Raise(exc, msg) == [exc |-> exc, msg |-> msg, val |-> None]

NoCall == Raise("", "")

----------------------------------------------------------------------------
(* types.py: Point *)

\* Point.__init__
Point(x, y) == [x |-> x, y |-> y]

\* Point.from_string taking a match at the start of the text for a full match
Point_from_string_prefix(text) ==
    LET match == Match(POINT_RE, Strip(text), 1, <<>>)
    IN  IF match.end = 0 THEN Raise("ValueError", "is not a valid point.")
        ELSE Return(PointV(Point(PyFloat(match.g[1]), PyFloat(match.g[2]))))

\* Point.from_string
Point_from_string(text) ==
    LET match == FullMatch(POINT_RE, Strip(text))
    IN  IF match.end = 0 THEN Raise("ValueError", "is not a valid point.")
        ELSE Return(PointV(Point(PyFloat(match.g[1]), PyFloat(match.g[2]))))

\* Point.__str__
Point_str(p) == <<"(">> \o FloatStr(p.x) \o <<",">> \o FloatStr(p.y) \o <<")">>

\* Point.__eq__
Point_eq(p, q) == FloatEq(p.x, q.x) /\ FloatEq(p.y, q.y)

\* Point.__lt__: (x, y) < (other.x, other.y)
Point_lt(p, q) == IF ~FloatEq(p.x, q.x) THEN FloatLt(p.x, q.x) ELSE FloatLt(p.y, q.y)

\* list.__eq__ on lists of Points
Points_eq(ps, qs) ==
    Len(ps) = Len(qs) /\ \A i \in 1..Len(ps) : Point_eq(ps[i], qs[i])

----------------------------------------------------------------------------
(* types.py: Line *)

LineV(A, B, C) == Value("Line", "", <<>>, <<A, B, C>>, <<>>)

\* Line.__init__ with "or" for "and" in its check
Line_either_zero(A, B, C) ==
    IF IsZero(A) \/ IsZero(B)
    THEN Raise("ValueError", "At least one of A or B must be non-zero for a valid line")
    ELSE Return(LineV(A, B, C))

\* Line.__init__
Line(A, B, C) ==
    IF IsZero(A) /\ IsZero(B)
    THEN Raise("ValueError", "At least one of A or B must be non-zero for a valid line")
    ELSE Return(LineV(A, B, C))

\* float(v[i]) for an element of a tuple or list v of coefficients: a number
\* converts to itself; a text is stripped and converts when it is a numeral,
\* an optional "-", digits and an optional fraction, and raises otherwise
\* (Line.__init__ converts each coefficient with float())
PyFloatOf(v, i) ==
    IF v.elem # "str" THEN Return(NumV(v.nums[i]))
    ELSE IF FullMatch(<<Group("_FLOAT_RE")>>, Strip(v.nums[i])).end = 0
    THEN Raise("ValueError", "could not convert string to float")
    ELSE Return(NumV(PyFloat(Strip(v.nums[i]))))

\* Line(*v) for a tuple or list v of three coefficients, numbers or texts:
\* Line.__init__ compares A and B with 0 as they are given, and a text never
\* equals 0; then it stores float(A), float(B), float(C)
Line_init(v) ==
    IF v.elem # "str" /\ IsZero(v.nums[1]) /\ IsZero(v.nums[2])
    THEN Raise("ValueError", "At least one of A or B must be non-zero for a valid line")
    ELSE IF \E i \in 1..3 : PyFloatOf(v, i).exc # ""
    THEN Raise("ValueError", "could not convert string to float")
    ELSE Return(LineV(PyFloatOf(v, 1).val.nums[1], PyFloatOf(v, 2).val.nums[1],
                      PyFloatOf(v, 3).val.nums[1]))

\* Line.from_string
Line_from_string(text) ==
    LET match == FullMatch(LINE_RE, Strip(text))
    IN  IF match.end = 0 THEN Raise("ValueError", "is not a valid line")
        ELSE Line(PyFloat(match.g[1]), PyFloat(match.g[2]), PyFloat(match.g[3]))

\* Line.__str__
Line_str(l) ==
    <<"{">> \o FloatStr(l.nums[1]) \o <<",">> \o FloatStr(l.nums[2])
            \o <<",">> \o FloatStr(l.nums[3]) \o <<"}">>

\* Line.__eq__
Line_eq(l, o) ==
    /\ l.tag = "Line" /\ o.tag = "Line"
    /\ \A i \in 1..3 : FloatEq(l.nums[i], o.nums[i])

----------------------------------------------------------------------------
(* types.py: Circle *)

CircleV(center, radius) == Value("Circle", "", <<center>>, <<radius>>, <<>>)

\* float(a) of a constructor argument: a Point is no number
IsNum(a) == a.tag = "float"

\* Circle.__init__ taking every call of three or more arguments as (x, y, r)
Circle_three_or_more(args) ==
    IF Len(args) = 1
    THEN IF IsNum(args[1]) THEN Return(CircleV(Point(FZero, FZero), args[1].nums[1]))
         ELSE Raise("TypeError", "float() argument must be a string or a real number")
    ELSE IF Len(args) = 2 /\ args[1].tag = "Point"
    THEN IF IsNum(args[2]) THEN Return(CircleV(args[1].pts[1], args[2].nums[1]))
         ELSE Raise("TypeError", "float() argument must be a string or a real number")
    ELSE IF Len(args) >= 3
    THEN IF \A i \in 1..3 : IsNum(args[i])
         THEN Return(CircleV(Point(args[1].nums[1], args[2].nums[1]), args[3].nums[1]))
         ELSE Raise("TypeError", "float() argument must be a string or a real number")
    ELSE Raise("TypeError", "Invalid arguments for Circle")

\* Circle.__init__(*args)
Circle(args) ==
    IF Len(args) = 1
    THEN IF IsNum(args[1]) THEN Return(CircleV(Point(FZero, FZero), args[1].nums[1]))
         ELSE Raise("TypeError", "float() argument must be a string or a real number")
    ELSE IF Len(args) = 2 /\ args[1].tag = "Point"
    THEN IF IsNum(args[2]) THEN Return(CircleV(args[1].pts[1], args[2].nums[1]))
         ELSE Raise("TypeError", "float() argument must be a string or a real number")
    ELSE IF Len(args) = 3
    THEN IF \A i \in 1..3 : IsNum(args[i])
         THEN Return(CircleV(Point(args[1].nums[1], args[2].nums[1]), args[3].nums[1]))
         ELSE Raise("TypeError", "float() argument must be a string or a real number")
    ELSE Raise("TypeError", "Invalid arguments for Circle")

\* Circle.from_string
Circle_from_string(text) ==
    LET match == FullMatch(CIRCLE_RE, Strip(text))
    IN  IF match.end = 0 THEN Raise("ValueError", "is not a valid circle.")
        ELSE Circle(<<NumV(PyFloat(match.g[1])), NumV(PyFloat(match.g[2])),
                      NumV(PyFloat(match.g[3]))>>)

\* Circle.__str__: f"<{self.center}, {self.radius}>"
Circle_str(c) ==
    <<"<">> \o Point_str(c.pts[1]) \o <<",", " ">> \o FloatStr(c.nums[1]) \o <<">">>

\* Circle.__eq__
Circle_eq(c, o) ==
    /\ c.tag = "Circle" /\ o.tag = "Circle"
    /\ Point_eq(c.pts[1], o.pts[1]) /\ FloatEq(c.nums[1], o.nums[1])

----------------------------------------------------------------------------
(* utils.py: require_postgres *)

UpperCase == <<"A", "B", "C", "D", "E", "F", "G", "H", "I", "J", "K", "L", "M", "N", "O", "P", "Q", "R", "S", "T", "U", "V", "W", "X", "Y", "Z">>

LowerCase == <<"a", "b", "c", "d", "e", "f", "g", "h", "i", "j", "k", "l", "m", "n", "o", "p", "q", "r", "s", "t", "u", "v", "w", "x", "y", "z">>

\* str.lower()
Lower(t) ==
    [i \in 1..Len(t) |->
        IF \E k \in 1..26 : UpperCase[k] = t[i]
        THEN LowerCase[CHOOSE k \in 1..26 : UpperCase[k] = t[i]]
        ELSE t[i]]

\* sub in t, on str
Contains(sub, t) ==
    \E i \in 0..(Len(t) - Len(sub)) : SubSeq(t, i + 1, i + Len(sub)) = sub

\* the engine names require_postgres looks for
PostgresNames == {<<"p", "o", "s", "t", "g", "r", "e", "s", "q", "l">>, <<"p", "o", "s", "t", "g", "i", "s">>, <<"p", "s", "y", "c", "o", "p", "g", "2">>}

\* a connection whose settings_dict is d: a function from key to text
Connection(d) == [tag |-> "connection", settings_dict |-> d]

\* dict.get(key, default)
DictGet(d, key, default) == IF key \in DOMAIN d THEN d[key] ELSE default

\* require_postgres comparing the engine name as it is spelled
require_postgres_case_sensitive(conn, result) ==
    IF conn = None
    THEN Raise("ValueError", "No 'connection' argument found to check database engine")
    ELSE LET engine == DictGet(conn.settings_dict, "ENGINE", <<>>)
         IN  IF ~\E db \in PostgresNames : Contains(db, engine)
             THEN Raise("FieldError", "Current database is not a PostgreSQL instance")
             ELSE result

\* the wrapper require_postgres puts around db_type: result is what the
\* wrapped method returns
require_postgres(conn, result) ==
    IF conn = None
    THEN Raise("ValueError", "No 'connection' argument found to check database engine")
    ELSE LET engine == Lower(DictGet(conn.settings_dict, "ENGINE", <<>>))
         IN  IF ~\E db \in PostgresNames : Contains(db, engine)
             THEN Raise("FieldError", "Current database is not a PostgreSQL instance")
             ELSE result

----------------------------------------------------------------------------
(* fields.py: the multi-point fields.  A list or tuple value v holds the    *)
(* elements v.pts; v.elem tells whether they are Point objects or pairs.    *)

IsList(v) == v.tag = "list"

IsListOrTuple(v) == v.tag \in {"list", "tuple"}

\* all(isinstance(p, Point) for p in value)
AllPoints(v) == v.pts = <<>> \/ v.elem = "Point"

\* all(isinstance(p, list | tuple) for p in value)
AllPairs(v) == v.pts = <<>> \/ v.elem = "pair"

\* the loop of get_prep_value: f"({pt.x},{pt.y})" for each element, a pair
\* being made a Point first
PrepPoints(v) ==
    [i \in 1..Len(v.pts) |->
        <<"(">> \o FloatStr(v.pts[i].x) \o <<",">> \o FloatStr(v.pts[i].y) \o <<")">>]

\* [Point(float(x), float(y)) for x, y in matches]
MatchedPoints(matches) ==
    [i \in 1..Len(matches) |-> Point(PyFloat(matches[i][1]), PyFloat(matches[i][2]))]

\* point_re.findall(value) if isinstance(value, str) else []
Matches(v) == IF v.tag = "str" THEN FindAllFrom(point_re, v.text, 1) ELSE <<>>

\* LineSegmentField.to_python
LineSegmentField_to_python(v) ==
    IF v = None THEN Return(None)
    ELSE IF IsList(v) /\ AllPoints(v)
    THEN IF Len(v.pts) # 2 THEN Raise("ValueError", "Segment needs exactly 2 points")
         ELSE Return(v)
    ELSE IF IsListOrTuple(v) /\ Len(v.pts) = 2 /\ AllPairs(v)
    THEN Return(ListV(v.pts))
    ELSE IF Len(Matches(v)) = 2 THEN Return(ListV(MatchedPoints(Matches(v))))
    ELSE Raise("ValueError", "Cannot parse line segment from value")

\* LineSegmentField.get_prep_value
LineSegmentField_get_prep_value(v) ==
    IF v = None THEN Return(None)
    ELSE IF ~IsList(v) \/ Len(v.pts) # 2
    THEN Raise("ValueError", "Segment needs exactly 2 points")
    ELSE Return(StrV(<<"[">> \o Join(PrepPoints(v), <<",">>) \o <<"]">>))

\* BoxField.to_python
BoxField_to_python(v) ==
    IF v = None THEN Return(None)
    ELSE IF IsList(v) /\ AllPoints(v)
    THEN IF Len(v.pts) # 2 THEN Raise("ValueError", "Box needs exactly 2 points")
         ELSE Return(v)
    ELSE IF IsListOrTuple(v) /\ Len(v.pts) = 2 /\ AllPairs(v)
    THEN Return(ListV(v.pts))
    ELSE IF Len(Matches(v)) = 2 THEN Return(ListV(MatchedPoints(Matches(v))))
    ELSE Raise("ValueError", "Cannot parse box from value")

\* BoxField.get_prep_value
BoxField_get_prep_value(v) ==
    IF v = None THEN Return(None)
    ELSE IF ~IsList(v) \/ Len(v.pts) # 2
    THEN Raise("ValueError", "Box needs exactly 2 points")
    ELSE Return(StrV(Join(PrepPoints(v), <<",">>)))

\* PathField.to_python
PathField_to_python(v) ==
    IF v = None THEN Return(None)
    ELSE IF IsList(v) /\ AllPoints(v)
    THEN IF Len(v.pts) < 2 THEN Raise("ValueError", "Path requires at least 2 points")
         ELSE Return(v)
    ELSE IF IsListOrTuple(v) /\ AllPairs(v)
    THEN IF Len(v.pts) < 2 THEN Raise("ValueError", "Path requires at least 2 points")
         ELSE Return(ListV(v.pts))
    ELSE IF Len(Matches(v)) >= 2 THEN Return(ListV(MatchedPoints(Matches(v))))
    ELSE Raise("ValueError", "Cannot parse path from value")

\* PathField.get_prep_value writing every path open
PathField_get_prep_value_always_open(self_closed, v) ==
    IF v = None THEN Return(None)
    ELSE IF ~IsListOrTuple(v) \/ Len(v.pts) < 2
    THEN Raise("ValueError", "Needs at minimum 2 points")
    ELSE Return(StrV(<<"[">> \o Join(PrepPoints(v), <<",">>) \o <<"]">>))

\* PathField.get_prep_value, self.closed being the field's flag
PathField_get_prep_value(self_closed, v) ==
    IF v = None THEN Return(None)
    ELSE IF ~IsListOrTuple(v) \/ Len(v.pts) < 2
    THEN Raise("ValueError", "Needs at minimum 2 points")
    ELSE LET open_bracket  == IF self_closed THEN "(" ELSE "["
             close_bracket == IF self_closed THEN ")" ELSE "]"
         IN  Return(StrV(<<open_bracket>> \o Join(PrepPoints(v), <<",">>)
                                           \o <<close_bracket>>))

\* PolygonField.to_python
PolygonField_to_python(v) ==
    IF v = None THEN Return(None)
    ELSE IF IsList(v) /\ AllPoints(v)
    THEN IF Len(v.pts) < 3 THEN Raise("ValueError", "Polygon requires at least 3 points")
         ELSE Return(v)
    ELSE IF IsListOrTuple(v) /\ AllPairs(v)
    THEN IF Len(v.pts) < 3 THEN Raise("ValueError", "Polygon requires at least 3 points")
         ELSE Return(ListV(v.pts))
    ELSE IF Len(Matches(v)) >= 3 THEN Return(ListV(MatchedPoints(Matches(v))))
    ELSE Raise("ValueError", "Cannot parse polygon from value")

\* PolygonField.get_prep_value with the minimum of PathField
PolygonField_get_prep_value_min2(v) ==
    IF v = None THEN Return(None)
    ELSE IF ~IsListOrTuple(v) \/ Len(v.pts) < 2
    THEN Raise("ValueError", "Needs at minimum 3 points")
    ELSE Return(StrV(<<"(">> \o Join(PrepPoints(v), <<",">>) \o <<")">>))

\* PolygonField.get_prep_value
PolygonField_get_prep_value(v) ==
    IF v = None THEN Return(None)
    ELSE IF ~IsListOrTuple(v) \/ Len(v.pts) < 3
    THEN Raise("ValueError", "Needs at minimum 3 points")
    ELSE Return(StrV(<<"(">> \o Join(PrepPoints(v), <<",">>) \o <<")">>))

----------------------------------------------------------------------------
(* utils.py: PointMixin *)

\* len(value) of a tuple or list: its points or pairs and its numbers
PyLen(v) == Len(v.pts) + Len(v.nums)

RECURSIVE PointsFromStrings(_, _)
\* [Point.from_string(v) for v in value] from the i-th text on: the points,
\* or the exception of the first text that is no point
PointsFromStrings(texts, i) ==
    IF i > Len(texts) THEN Return(ListV(<<>>))
    ELSE IF Point_from_string(texts[i]).exc # "" THEN Point_from_string(texts[i])
    ELSE IF PointsFromStrings(texts, i + 1).exc # "" THEN PointsFromStrings(texts, i + 1)
    ELSE Return(ListV(Point_from_string(texts[i]).val.pts
                        \o PointsFromStrings(texts, i + 1).val.pts))

\* PointMixin.to_python
PointMixin_to_python(v) ==
    IF v = None THEN Return(None)
    ELSE IF v.tag = "str"
    THEN IF SplitFrom(v.text, 1) = <<>> THEN Return(ListV(<<>>))
         ELSE PointsFromStrings(SplitFrom(v.text, 1), 1)
    ELSE IF ~IsListOrTuple(v) THEN Raise("TypeError", "is not iterable")
    ELSE IF v.nums = <<>> /\ (v.pts = <<>> \/ v.elem = "Point") THEN Return(ListV(v.pts))
    ELSE Raise("AttributeError", "object has no attribute 'strip'")

----------------------------------------------------------------------------
(* fields.py: CircleField.  A (center, radius) tuple or list is a value     *)
(* with pts <<center>> and nums <<radius>>.                                 *)

\* CircleField.to_python
CircleField_to_python(v) ==
    IF v = None \/ v.tag = "Circle" THEN Return(v)
    ELSE IF IsListOrTuple(v) /\ Len(v.pts) = 1 /\ Len(v.nums) = 1
    THEN Circle(<<PointV(v.pts[1]), NumV(v.nums[1])>>)
    ELSE IF v.tag = "float" THEN Circle(<<v>>)
    ELSE IF v.tag = "str"
    THEN IF Circle_from_string(v.text).exc # ""
         THEN Raise("ValueError", "Invalid circle value")
         ELSE Circle_from_string(v.text)
    ELSE Raise("ValueError", "Cannot convert to Circle")

\* CircleField.get_prep_value without its check of the radius
CircleField_get_prep_value_unchecked(v) ==
    LET c == IF v.tag = "Circle" THEN Return(v)
             ELSE IF IsListOrTuple(v) /\ Len(v.pts) = 1 /\ Len(v.nums) = 1
             THEN Circle(<<PointV(v.pts[1]), NumV(v.nums[1])>>)
             ELSE Raise("ValueError", "Cannot prepare value as Circle")
    IN  IF v = None THEN Return(None)
        ELSE IF c.exc # "" THEN c
        ELSE Return(StrV(<<"<", "(">> \o FloatStr(c.val.pts[1].x) \o <<",">>
                             \o FloatStr(c.val.pts[1].y) \o <<")", ",">>
                             \o FloatStr(c.val.nums[1]) \o <<">">>))

\* CircleField.get_prep_value
CircleField_get_prep_value(v) ==
    LET c == IF v.tag = "Circle" THEN Return(v)
             ELSE IF IsListOrTuple(v) /\ Len(v.pts) = 1 /\ Len(v.nums) = 1
             THEN Circle(<<PointV(v.pts[1]), NumV(v.nums[1])>>)
             ELSE Raise("ValueError", "Cannot prepare value as Circle")
    IN  IF v = None THEN Return(None)
        ELSE IF c.exc # "" THEN c
        ELSE IF FloatLt(c.val.nums[1], FZero)
        THEN Raise("ValueError", "Circle radius cannot be negative")
        ELSE Return(StrV(<<"<", "(">> \o FloatStr(c.val.pts[1].x) \o <<",">>
                             \o FloatStr(c.val.pts[1].y) \o <<")", ",">>
                             \o FloatStr(c.val.nums[1]) \o <<">">>))

----------------------------------------------------------------------------
(* fields.py: PointField and LineField.  An (x, y) or (A, B, C) tuple or    *)
(* list is a value with the numbers in nums.                                *)

\* PointField.to_python
PointField_to_python(v) ==
    IF v = None \/ v.tag = "Point" THEN Return(v)
    ELSE IF IsListOrTuple(v) /\ PyLen(v) = 2
    THEN IF Len(v.nums) = 2 THEN Return(PointV(Point(v.nums[1], v.nums[2])))
         ELSE Raise("TypeError", "float() argument must be a string or a real number")
    ELSE IF v.tag = "str" THEN Point_from_string(v.text)
    ELSE Raise("TypeError", "Cannot convert to Point.")

\* PointField.get_prep_value
PointField_get_prep_value(v) ==
    IF v = None THEN Return(None)
    ELSE IF PointField_to_python(v).exc # "" THEN PointField_to_python(v)
    ELSE Return(StrV(Point_str(PointField_to_python(v).val.pts[1])))

\* LineField.to_python
LineField_to_python(v) ==
    IF v = None \/ v.tag = "Line" THEN Return(v)
    ELSE IF v.tag = "str"
    THEN IF Line_from_string(v.text).exc # ""
         THEN Raise("ValueError", "Invalid line string")
         ELSE Line_from_string(v.text)
    ELSE IF IsListOrTuple(v) /\ PyLen(v) = 3
    THEN IF Len(v.nums) = 3 /\ Line_init(v).exc = ""
         THEN Line_init(v)
         ELSE Raise("ValueError", "Invalid line coefficients")
    ELSE Raise("ValueError", "Cannot convert to Line.")

\* LineField.get_prep_value
LineField_get_prep_value(v) ==
    IF v = None THEN Return(None)
    ELSE IF v.tag = "Line" THEN Return(StrV(Line_str(v)))
    ELSE IF IsListOrTuple(v) /\ PyLen(v) = 3
    THEN IF Len(v.nums) # 3
         THEN Raise("TypeError", "float() argument must be a string or a real number")
         ELSE IF Line_init(v).exc # "" THEN Line_init(v)
         ELSE Return(StrV(Line_str(Line_init(v).val)))
    ELSE Raise("ValueError", "Cannot prepare value as Line")

----------------------------------------------------------------------------
(* fields.py: the methods of the field named f *)

\* field.to_python(v)
Field_to_python(f, v) ==
    CASE f = "point"      -> PointField_to_python(v)
      [] f = "line"       -> LineField_to_python(v)
      [] f = "lseg"       -> LineSegmentField_to_python(v)
      [] f = "box"        -> BoxField_to_python(v)
      [] f = "path"       -> PathField_to_python(v)
      [] f = "polygon"    -> PolygonField_to_python(v)
      [] f = "circle"     -> CircleField_to_python(v)
      [] f = "PointMixin" -> PointMixin_to_python(v)

\* field.get_prep_value(v), self_closed being the flag of a path field
Field_get_prep_value(f, self_closed, v) ==
    CASE f = "point"   -> PointField_get_prep_value(v)
      [] f = "line"    -> LineField_get_prep_value(v)
      [] f = "lseg"    -> LineSegmentField_get_prep_value(v)
      [] f = "box"     -> BoxField_get_prep_value(v)
      [] f = "path"    -> PathField_get_prep_value(self_closed, v)
      [] f = "polygon" -> PolygonField_get_prep_value(v)
      [] f = "circle"  -> CircleField_get_prep_value(v)

----------------------------------------------------------------------------
(* fields.py: db_type *)

\* the text db_type returns for the field named f
TypeName(f) ==
    CASE f = "point" -> <<"p", "o", "i", "n", "t">>
      [] f = "line" -> <<"l", "i", "n", "e">>
      [] f = "lseg" -> <<"l", "s", "e", "g">>
      [] f = "box" -> <<"b", "o", "x">>
      [] f = "path" -> <<"p", "a", "t", "h">>
      [] f = "polygon" -> <<"p", "o", "l", "y", "g", "o", "n">>
      [] f = "circle" -> <<"c", "i", "r", "c", "l", "e">>

\* db_type(self, connection) of the field named f
Field_db_type(f, conn) == require_postgres(conn, Return(StrV(TypeName(f))))

----------------------------------------------------------------------------
(* Inputs *)

F1     == Float(1, 1, 0)       \* 1.0
F2     == Float(1, 2, 0)       \* 2.0
FNeg   == Float(-1, 15, -1)    \* -1.5
FBig   == Float(1, 1, 16)      \* 1e16
FSmall == Float(1, 1, -5)      \* 1e-05
FNegZ  == Float(-1, 0, 0)      \* -0.0

\* the points that are assigned to the multi-point fields
Points ==
    {Point(F1, F1), Point(F2, F2), Point(F1, F2), Point(F2, F1), Point(FNeg, FBig)}

RECURSIVE SeqsUpTo(_, _)
\* the sequences over S of length at most n
SeqsUpTo(S, n) ==
    IF n = 0 THEN {<<>>}
    ELSE LET shorter == SeqsUpTo(S, n - 1)
         IN  shorter \cup {Append(q, x) : q \in {r \in shorter : Len(r) = n - 1}, x \in S}

\* the values assigned to a multi-point field: lists and tuples of Point
\* objects or of (x, y) pairs
PointSeqValues ==
    {Value(tag, elem, pts, <<>>, <<>>) :
        tag \in {"list", "tuple"}, elem \in {"Point", "pair"},
        pts \in SeqsUpTo(Points, MaxLen)}

MultiPointFields == {"lseg", "box", "path", "polygon"}

\* the coefficients a Line is built from
Coefficients == {FZero, FNegZ, F1, FNeg, FBig, FSmall}

\* the arguments a Circle is built from
CircleArgs == {NumV(F1), NumV(FNeg), NumV(FBig), NumV(FNegZ), PointV(Point(F1, F2))}

\* most arguments in a call of Circle
MaxArgs == 4

\* numerals as they appear in stored text
Numerals ==
    {<<"0">>, <<"-", "0">>, <<"1">>, <<".", "5">>, <<"-", "1", ".", "5">>, <<"3", ".">>}

Blanks == {<<>>, <<" ">>}

\* line text: { A , B , C } with b around every numeral
LineText(A, B, C, b) ==
    <<"{">> \o b \o A \o b \o <<",">> \o b \o B \o b \o <<",">> \o b \o C \o b \o <<"}">>

LineTexts ==
    {LineText(A, B, C, b) : A \in Numerals, B \in Numerals, C \in Numerals, b \in Blanks}

\* circle text: <(x,y),r> with b before the radius
CircleText(x, y, r, b) ==
    <<"<", "(">> \o x \o <<",">> \o y \o <<")", ",">> \o b \o r \o <<">">>

CircleTexts ==
    {CircleText(x, x, r, b) :
        x \in {<<"1">>, <<"-", "1", ".", "5">>}, r \in Numerals, b \in Blanks}

\* 0.00001, which float() reads as 1e-05
TinyNumeral == <<"0", ".", "0", "0", "0", "0", "1">>

\* point text: ( x , y ) with b after "(", around "," and before ")"
PointText(x, y, b) == <<"(">> \o b \o x \o b \o <<",">> \o b \o y \o b \o <<")">>

\* texts that are a point and nothing else
GoodPointTexts ==
    {PointText(x, y, b) :
        x \in Numerals \cup {TinyNumeral}, y \in {<<"1">>, <<"-", "1", ".", "5">>, <<".", "5">>},
        b \in Blanks}

\* a point with blanks before or after it
PaddedPointTexts ==
    {pre \o t \o post : pre \in Blanks, post \in Blanks, t \in GoodPointTexts} \ GoodPointTexts

\* texts that no number pattern matches as a whole
BadNumerals ==
    {<<>>, <<"-">>, <<".">>, <<"+", "1">>, <<"1", "e", "5">>, <<"1", ".", "5", ".", "2">>,
     <<"1", " ", "2">>, <<"-", "-", "1">>}

\* texts that are not a point: characters before or after one, a parenthesis
\* missing, a number malformed
BadPointTexts ==
    UNION {{<<"x">> \o t, t \o <<"x">>, t \o <<",">>, t \o t, Tail(t), SubSeq(t, 1, Len(t) - 1)} :
            t \in GoodPointTexts}
    \cup {PointText(x, <<"1">>, b) : x \in BadNumerals, b \in Blanks}
    \cup {PointText(<<"1">>, y, b) : y \in BadNumerals, b \in Blanks}

PointTexts == GoodPointTexts \cup PaddedPointTexts \cup BadPointTexts

\* the db_type names of the fields
Fields == {"point", "line", "lseg", "box", "path", "polygon", "circle"}

\* numerals and texts that are no numeral, tried as a coordinate
ProbeNumerals == Numerals \cup {TinyNumeral} \cup BadNumerals

\* the text of a value of field f whose first coordinate is written n and
\* whose other numbers are written 1
ProbeText(f, n) ==
    LET one   == <<"1">>
        first == PointText(n, one, <<>>)
        other == PointText(one, one, <<>>)
    IN  CASE f = "point"   -> first
          [] f = "line"    -> LineText(n, one, one, <<>>)
          [] f = "circle"  -> CircleText(n, one, one, <<>>)
          [] f = "lseg"    -> <<"[">> \o first \o <<",">> \o other \o <<"]">>
          [] f = "box"     -> first \o <<",">> \o other
          [] f = "path"    -> <<"[">> \o first \o <<",">> \o other \o <<"]">>
          [] f = "polygon" -> <<"(">> \o first \o <<",">> \o other \o <<",">> \o other \o <<")">>

ProbeTexts(f) == {ProbeText(f, n) : n \in ProbeNumerals}

\* commas, parentheses, braces and angle brackets
Punctuation == {",", "(", ")", "{", "}", "<", ">", "[", "]"}

\* the places of t next to a punctuation character or at an end of t
BlankPlaces(t) ==
    {k \in 0..Len(t) :
        \/ k = 0 \/ k = Len(t)
        \/ t[k] \in Punctuation
        \/ t[k + 1] \in Punctuation}

\* t with a blank put in after its first k characters
InsertBlank(t, k) == SubSeq(t, 1, k) \o <<" ">> \o SubSeq(t, k + 1, Len(t))

\* the text of a value of field f whose first coordinate is written -1.5
BaseText(f) == ProbeText(f, <<"-", "1", ".", "5">>)

\* the base text of field f with one blank next to a punctuation character
SpacedTexts(f) == {InsertBlank(BaseText(f), k) : k \in BlankPlaces(BaseText(f))}

\* the fewest points of a value of a multi-point field
MinPoints(f) == IF f = "polygon" THEN 3 ELSE 2

\* the bracket that opens and the one that closes the text of field f, a
\* path being written open
OpenBracket(f) ==
    CASE f = "lseg" -> <<"[">> [] f = "box" -> <<>> [] f = "path" -> <<"[">> [] f = "polygon" -> <<"(">>

CloseBracket(f) ==
    CASE f = "lseg" -> <<"]">> [] f = "box" -> <<>> [] f = "path" -> <<"]">> [] f = "polygon" -> <<")">>

\* the text of field f for the point groups, put together with sep
ListText(f, groups, sep) == OpenBracket(f) \o Join(groups, sep) \o CloseBracket(f)

\* the groups (1,1), (1,2), ... of a smallest value of field f
GoodGroups(f) == [i \in 1..MinPoints(f) |-> PointText(<<"1">>, <<DigitChar(i)>>, <<>>)]

\* a point group whose number has an exponent
BadGroup == PointText(<<"1", "e", "5">>, <<"1">>, <<>>)

\* texts that are not of the grammar of field f: characters around or
\* between the points, other brackets, a group with a malformed number, one
\* group too few and, for a segment or a box, one too many
MalformedTexts(f) ==
    LET good == ListText(f, GoodGroups(f), <<",">>)
    IN  {<<"x">> \o good, good \o <<"x">>,
         ListText(f, GoodGroups(f), <<"x">>),
         ListText(f, GoodGroups(f), <<",", "x", ",">>),
         <<"{">> \o Join(GoodGroups(f), <<",">>) \o <<"}">>,
         ListText(f, GoodGroups(f) \o <<BadGroup>>, <<",">>),
         ListText(f, <<BadGroup>> \o GoodGroups(f), <<",">>),
         ListText(f, Tail(GoodGroups(f)), <<",">>)}
        \cup (IF f \in {"lseg", "box"}
              THEN {ListText(f, GoodGroups(f) \o <<BadGroup, BadGroup>>, <<",">>),
                    ListText(f, GoodGroups(f) \o GoodGroups(f), <<",">>)}
              ELSE {})

\* the point groups (1,1), ..., (1,n) and the points they stand for
NumberedGroups(n) == [i \in 1..n |-> PointText(<<"1">>, <<DigitChar(i)>>, <<>>)]

NumberedPoints(n) == [i \in 1..n |-> Point(F1, Float(1, i, 0))]

\* the text of the path (1,1), ..., (1,n), in the closed or the open form
PathText(n, c) ==
    (IF c THEN <<"(">> ELSE <<"[">>) \o Join(NumberedGroups(n), <<",">>)
        \o (IF c THEN <<")">> ELSE <<"]">>)

PathTexts == {PathText(n, c) : n \in 2..MaxLen, c \in BOOLEAN}

\* the brackets around a list of points: "(", "[" or none
OuterBrackets == {<<"(", ")">>, <<"[", "]">>, <<"", "">>}

\* the text of the points (1,1), ..., (1,n) inside the brackets o, with b
\* after the opening one
SplitText(n, o, b) ==
    (IF o[1] = "" THEN <<>> ELSE <<o[1]>>) \o b \o Join(NumberedGroups(n), <<",">>)
        \o (IF o[2] = "" THEN <<>> ELSE <<o[2]>>)

SplitTexts == {SplitText(n, o, b) : n \in 1..MaxLen, o \in OuterBrackets, b \in Blanks}

\* the texts handed to the parsers of field f
InputTexts(f) ==
    IF f = "PointMixin" THEN SplitTexts
    ELSE ProbeTexts(f) \cup SpacedTexts(f)
            \cup (IF f \in MultiPointFields THEN MalformedTexts(f) ELSE {})
            \cup (IF f = "path" THEN PathTexts ELSE {})

\* ENGINE settings that name PostgreSQL, PostGIS or psycopg2
PostgresEngines ==
    {<<"d", "j", "a", "n", "g", "o", ".", "d", "b", ".", "b", "a", "c", "k", "e", "n", "d", "s", ".", "p", "o", "s", "t", "g", "r", "e", "s", "q", "l">>,
     <<"d", "j", "a", "n", "g", "o", ".", "c", "o", "n", "t", "r", "i", "b", ".", "g", "i", "s", ".", "d", "b", ".", "b", "a", "c", "k", "e", "n", "d", "s", ".", "p", "o", "s", "t", "g", "i", "s">>,
     <<"p", "s", "y", "c", "o", "p", "g", "2">>,
     <<"P", "o", "s", "t", "g", "r", "e", "S", "Q", "L">>,
     <<"x", ".", "P", "o", "s", "t", "G", "I", "S">>}

\* ENGINE settings that name none of them
OtherEngines ==
    {<<"s", "q", "l", "i", "t", "e">>,
     <<"d", "j", "a", "n", "g", "o", ".", "d", "b", ".", "b", "a", "c", "k", "e", "n", "d", "s", ".", "s", "q", "l", "i", "t", "e", "3">>,
     <<"d", "j", "a", "n", "g", "o", ".", "d", "b", ".", "b", "a", "c", "k", "e", "n", "d", "s", ".", "m", "y", "s", "q", "l">>,
     <<"p", "o", "s", "t", "g", "r", "e", "s">>,
     <<"p", "o", "s", "t", "g", "i", ".", "s">>,
     <<>>}

\* the connections db_type is called with: None, one without an ENGINE
\* setting, and one for each engine
Connections ==
    {None, Connection(<<>>)}
        \cup {Connection([key \in {"ENGINE"} |-> e]) : e \in PostgresEngines \cup OtherEngines}

\* a tuple or a list of numbers
NumSeqV(tag, nums) == Value(tag, "", <<>>, nums, <<>>)

\* a tuple or a list of texts
StrSeqV(tag, texts) == Value(tag, "str", <<>>, texts, <<>>)

\* (A, B, "1") for texts A and B: numerals for 0 and for 1, and a text that
\* is no numeral
TextCoefficients ==
    LET texts == {<<"0">>, <<"-", "0", ".", "0">>, <<" ", "0">>, <<"1">>, <<"x">>}
    IN  {StrSeqV(tag, <<A, B, <<"1">>>>) : tag \in {"list", "tuple"},
                                          A \in texts, B \in texts}

\* a (center, radius) tuple or list, the center a Point or a pair
CenterRadiusV(tag, elem, center, radius) == Value(tag, elem, <<center>>, <<radius>>, <<>>)

\* lists and tuples, of Points and of pairs, of at most MaxLen of two points
RawPointSeqs ==
    {Value(tag, elem, pts, <<>>, <<>>) :
        tag \in {"list", "tuple"}, elem \in {"Point", "pair"},
        pts \in SeqsUpTo({Point(F1, F1), Point(FNeg, F2)}, MaxLen)}

\* texts with no point group in them
ZeroGroupTexts == {<<>>, <<"[", "]">>, <<"x">>}

\* the values handed to the field named f as they are
RawInputs(f) ==
    CASE f = "point" ->
            {PointV(Point(FNeg, F1)), StrV(BaseText(f))}
                \cup {NumSeqV(tag, <<FNeg, F1>>) : tag \in {"list", "tuple"}}
      [] f = "line" ->
            {LineV(FNeg, F1, F1), StrV(BaseText(f))}
                \cup {NumSeqV(tag, <<A, B, F1>>) : tag \in {"list", "tuple"},
                                                   A \in {FNeg, FZero}, B \in {F1, FNegZ}}
                \cup TextCoefficients
      [] f = "circle" ->
            {CircleV(Point(FNeg, F1), F1), CircleV(Point(FNeg, F1), FNeg),
             StrV(BaseText(f)), NumV(F1), NumV(FNeg)}
                \cup {CenterRadiusV(tag, elem, Point(FNeg, F1), r) :
                        tag \in {"list", "tuple"}, elem \in {"Point", "pair"}, r \in {F1, FNeg}}
      [] f \in MultiPointFields ->
            RawPointSeqs \cup {StrV(BaseText(f)), StrV(ListText(f, GoodGroups(f), <<",">>))}
      [] f = "PointMixin" ->
            RawPointSeqs \cup {NumV(F1), PointV(Point(F1, F1))}
                \cup {StrV(t) : t \in ZeroGroupTexts \cup SplitTexts}

----------------------------------------------------------------------------
(* State machine: a value is built, written as text and the text parsed.   *)

Init ==
    /\ field = ""
    /\ closed = FALSE
    /\ call_args = <<>>
    /\ value = NoCall
    /\ writer = ""
    /\ prep = NoCall
    /\ reader = ""
    /\ py = NoCall
    /\ connection = None
    /\ column_type = NoCall
    /\ raw = NoCall
    /\ cleaned = NoCall
    /\ saved = NoCall

\* a value of field f has been built and not yet written
Built(f) == field = f /\ value.exc = "" /\ value.val # None /\ writer = ""

\* a text of field f is there and not yet parsed
Written(f) == field = f /\ writer # "" /\ prep.exc = "" /\ prep.val # None /\ reader = ""

\* model.<field> = v, on a model whose path field is open or closed
Assign ==
    /\ field = ""
    /\ \E f \in MultiPointFields, c \in BOOLEAN, v \in PointSeqValues :
        /\ c => f = "path"
        /\ field' = f
        /\ closed' = c
        /\ value' = Return(v)
    /\ UNCHANGED <<call_args, writer, prep, reader, py, connection, column_type, raw, cleaned, saved>>

\* a row whose column holds the text t is there to be read
Stored(f, t) ==
    /\ field' = f
    /\ writer' = "db"
    /\ prep' = Return(StrV(t))
    /\ UNCHANGED <<closed, call_args, value, reader, py, connection, column_type, raw, cleaned, saved>>

StoredLine == field = "" /\ \E t \in LineTexts : Stored("line", t)

StoredCircle == field = "" /\ \E t \in CircleTexts : Stored("circle", t)

\* a text is handed to a parser of field f, on a model whose path field is
\* open or closed
InputText ==
    /\ field = ""
    /\ \E f \in Fields \cup {"PointMixin"}, c \in BOOLEAN :
        /\ c => f = "path"
        /\ \E t \in InputTexts(f) :
            /\ field' = f
            /\ closed' = c
            /\ prep' = Return(StrV(t))
    /\ writer' = "input"
    /\ UNCHANGED <<call_args, value, reader, py, connection, column_type, raw, cleaned, saved>>

Write(f, w, result) ==
    /\ Built(f)
    /\ writer' = w
    /\ prep' = result
    /\ UNCHANGED <<field, closed, call_args, value, reader, py, connection, column_type, raw, cleaned, saved>>

Read(f, r, result) ==
    /\ Written(f)
    /\ reader' = r
    /\ py' = result
    /\ UNCHANGED <<field, closed, call_args, value, writer, prep, connection, column_type, raw, cleaned, saved>>

LineSegmentFieldGetPrepValue ==
    Write("lseg", "get_prep_value", LineSegmentField_get_prep_value(value.val))

LineSegmentFieldToPython ==
    Read("lseg", "to_python", LineSegmentField_to_python(prep.val))

BoxFieldGetPrepValue ==
    Write("box", "get_prep_value", BoxField_get_prep_value(value.val))

BoxFieldToPython ==
    Read("box", "to_python", BoxField_to_python(prep.val))

PathFieldGetPrepValue ==
    Write("path", "get_prep_value", PathField_get_prep_value(closed, value.val))

PathFieldToPython ==
    Read("path", "to_python", PathField_to_python(prep.val))

PolygonFieldGetPrepValue ==
    Write("polygon", "get_prep_value", PolygonField_get_prep_value(value.val))

PolygonFieldToPython ==
    Read("polygon", "to_python", PolygonField_to_python(prep.val))

\* Line(A, B, C)
LineInit ==
    /\ field = ""
    /\ \E A \in Coefficients, B \in Coefficients, C \in Coefficients :
        /\ call_args' = <<NumV(A), NumV(B), NumV(C)>>
        /\ value' = Line(A, B, C)
    /\ field' = "line"
    /\ UNCHANGED <<closed, writer, prep, reader, py, connection, column_type, raw, cleaned, saved>>

\* str(line)
LineStr == Write("line", "__str__", Return(StrV(Line_str(value.val))))

\* Line.from_string(text)
LineFromString == Read("line", "from_string", Line_from_string(prep.val.text))

\* Circle(*call_args)
CircleInit ==
    /\ field = ""
    /\ \E a \in SeqsUpTo(CircleArgs, MaxArgs) :
        /\ call_args' = a
        /\ value' = Circle(a)
    /\ field' = "circle"
    /\ UNCHANGED <<closed, writer, prep, reader, py, connection, column_type, raw, cleaned, saved>>

\* str(circle)
CircleStr == Write("circle", "__str__", Return(StrV(Circle_str(value.val))))

CircleFieldGetPrepValue ==
    Write("circle", "get_prep_value", CircleField_get_prep_value(value.val))

\* Circle.from_string(text)
CircleFromString == Read("circle", "from_string", Circle_from_string(prep.val.text))

CircleFieldToPython == Read("circle", "to_python", CircleField_to_python(prep.val))

\* Point.from_string(text), the text being kept as the call's argument
PointFromStringInit ==
    /\ field = ""
    /\ \E t \in PointTexts :
        /\ call_args' = <<StrV(t)>>
        /\ value' = Point_from_string(t)
    /\ field' = "point"
    /\ UNCHANGED <<closed, writer, prep, reader, py, connection, column_type, raw, cleaned, saved>>

\* str(point)
PointStr == Write("point", "__str__", Return(StrV(Point_str(value.val.pts[1]))))

\* Point.from_string(text)
PointFromString == Read("point", "from_string", Point_from_string(prep.val.text))

\* field.db_type(connection)
DbType ==
    /\ field = ""
    /\ \E f \in Fields, conn \in Connections :
        /\ field' = f
        /\ connection' = conn
        /\ column_type' = Field_db_type(f, conn)
    /\ UNCHANGED <<closed, call_args, value, writer, prep, reader, py, raw, cleaned, saved>>

\* re.findall(self.SPLIT_RE, value), the first step of PointMixin.to_python
\* on text
PointMixinSplit ==
    Read("PointMixin", "findall", Return(SplitFrom(prep.val.text, 1)))

\* a value is handed to the field as it is, on a model whose path field is
\* open or closed
RawInput ==
    /\ field = ""
    /\ \E f \in Fields \cup {"PointMixin"}, c \in BOOLEAN :
        /\ c => f = "path"
        /\ \E v \in RawInputs(f) :
            /\ field' = f
            /\ closed' = c
            /\ raw' = Return(v)
    /\ UNCHANGED <<call_args, value, writer, prep, reader, py, connection, column_type,
                   cleaned, saved>>

\* field.to_python(raw)
FieldToPython ==
    /\ raw # NoCall
    /\ cleaned = NoCall
    /\ cleaned' = Field_to_python(field, raw.val)
    /\ UNCHANGED <<field, closed, call_args, value, writer, prep, reader, py, connection,
                   column_type, raw, saved>>

\* field.get_prep_value(raw)
FieldGetPrepValue ==
    /\ raw # NoCall
    /\ field \in Fields
    /\ saved = NoCall
    /\ saved' = Field_get_prep_value(field, closed, raw.val)
    /\ UNCHANGED <<field, closed, call_args, value, writer, prep, reader, py, connection,
                   column_type, raw, cleaned>>

Next ==
    \/ Assign
    \/ StoredLine
    \/ StoredCircle
    \/ LineSegmentFieldGetPrepValue
    \/ LineSegmentFieldToPython
    \/ BoxFieldGetPrepValue
    \/ BoxFieldToPython
    \/ PathFieldGetPrepValue
    \/ PathFieldToPython
    \/ PolygonFieldGetPrepValue
    \/ PolygonFieldToPython
    \/ LineInit
    \/ LineStr
    \/ LineFromString
    \/ CircleInit
    \/ CircleStr
    \/ CircleFieldGetPrepValue
    \/ CircleFromString
    \/ CircleFieldToPython
    \/ PointFromStringInit
    \/ PointStr
    \/ PointFromString
    \/ InputText
    \/ DbType
    \/ PointMixinSplit
    \/ RawInput
    \/ FieldToPython
    \/ FieldGetPrepValue

Spec == Init /\ [][Next]_vars

----------------------------------------------------------------------------
(* Properties *)

\* the larger and the smaller of two floats
FMax(a, b) == IF FloatLt(a, b) THEN b ELSE a

FMin(a, b) == IF FloatLt(a, b) THEN a ELSE b

\* the elements of the value a multi-point field was assigned
Assigned == value.val.pts

\* C1: for every pair of points p and q, BoxField.get_prep_value writes the
\* same text for [p, q] and for [q, p]: the larger point by (x, y) first,
\* the smaller second.
C1_BoxWriteOrderIndependent ==
    (field = "box" /\ writer = "get_prep_value" /\ prep.exc = "") =>
        LET p  == Assigned[1]
            q  == Assigned[2]
            hi == IF Point_lt(p, q) THEN q ELSE p
            lo == IF Point_lt(p, q) THEN p ELSE q
        IN  /\ prep.val.text = Point_str(hi) \o <<",">> \o Point_str(lo)
            /\ prep = BoxField_get_prep_value([value.val EXCEPT !.pts = <<q, p>>])

\* two points that differ in x and in y
OppositeCorners(p, q) == ~FloatEq(p.x, q.x) /\ ~FloatEq(p.y, q.y)

\* C2: a box given as two opposite corners, written by
\* BoxField.get_prep_value and read back by BoxField.to_python, is
\* [Point(max x, max y), Point(min x, min y)].
C2_BoxReadBackCorners ==
    (field = "box" /\ writer = "get_prep_value" /\ reader = "to_python") =>
        LET p == Assigned[1]
            q == Assigned[2]
        IN  OppositeCorners(p, q) =>
                /\ py.exc = ""
                /\ Points_eq(py.val.pts, <<Point(FMax(p.x, q.x), FMax(p.y, q.y)),
                                           Point(FMin(p.x, q.x), FMin(p.y, q.y))>>)

\* C3: LineSegmentField.get_prep_value and BoxField.get_prep_value succeed
\* if and only if the value holds exactly 2 points; with any other count
\* they raise "Segment needs exactly 2 points" / "Box needs exactly 2
\* points" and produce no text.
C3_ExactlyTwoPoints ==
    \A f \in {"lseg", "box"} :
        (field = f /\ writer = "get_prep_value") =>
            IF Len(Assigned) = 2
            THEN prep.exc = "" /\ prep.val.tag = "str"
            ELSE prep = Raise("ValueError", IF f = "lseg"
                                            THEN "Segment needs exactly 2 points"
                                            ELSE "Box needs exactly 2 points")

\* C4: PolygonField.get_prep_value succeeds if and only if the value holds at
\* least 3 points and PathField.get_prep_value if and only if it holds at
\* least 2; below the minimum they raise "Needs at minimum 3 points" /
\* "Needs at minimum 2 points", at or above it they produce text.
C4_MinimumPoints ==
    /\ (field = "polygon" /\ writer = "get_prep_value") =>
            IF Len(Assigned) >= 3
            THEN prep.exc = "" /\ prep.val.tag = "str"
            ELSE prep = Raise("ValueError", "Needs at minimum 3 points")
    /\ (field = "path" /\ writer = "get_prep_value") =>
            IF Len(Assigned) >= 2
            THEN prep.exc = "" /\ prep.val.tag = "str"
            ELSE prep = Raise("ValueError", "Needs at minimum 2 points")

\* a polygon of 2 points has been refused at the write
C4_PolygonBelowMinimum ==
    /\ field = "polygon" /\ writer = "get_prep_value"
    /\ Len(Assigned) = 2
    /\ prep.exc = "ValueError"

\* C5: for every sequence of 2 or more points, PathField.get_prep_value (open
\* or closed) followed by PathField.to_python returns a list of the same
\* length with equal points in the same order.
C5_PathRoundTrip ==
    (field = "path" /\ writer = "get_prep_value" /\ reader = "to_python") =>
        py.exc = "" /\ Points_eq(py.val.pts, Assigned)

ZeroNumerals == {<<"0">>, <<"-", "0">>}

ZeroLineTexts ==
    {LineText(A, B, C, b) : A \in ZeroNumerals, B \in ZeroNumerals, C \in Numerals, b \in Blanks}

\* C6: Line(A, B, C) raises for every C when A == 0 and B == 0 and builds
\* the line whenever A != 0 or B != 0; Line.from_string raises on text whose
\* A and B are both zero, such as "{0,0,0}", and builds a line otherwise.
C6_LineZeroRejected ==
    /\ (field = "line" /\ call_args # <<>>) =>
            LET A == call_args[1].nums[1]
                B == call_args[2].nums[1]
                C == call_args[3].nums[1]
            IN  IF A \in {FZero, FNegZ} /\ B \in {FZero, FNegZ}
                THEN value.exc = "ValueError" /\ value.val = None
                ELSE value = Return(LineV(A, B, C))
    /\ (field = "line" /\ writer = "db" /\ reader = "from_string") =>
            IF prep.val.text \in ZeroLineTexts
            THEN py.exc = "ValueError" /\ py.val = None
            ELSE py.exc = "" /\ py.val.tag = "Line"

\* Line.from_string("{0,0,0}") has raised
C6_ZeroLineTextRejected ==
    /\ field = "line" /\ reader = "from_string"
    /\ prep.val.text = <<"{", "0", ",", "0", ",", "0", "}">>
    /\ py.exc = "ValueError"

\* C7: for every Line l, Line.from_string(str(l)) succeeds and equals l.
C7_LineRoundTrip ==
    (field = "line" /\ writer = "__str__" /\ reader = "from_string") =>
        py.exc = "" /\ Line_eq(py.val, value.val)

\* C8: for every Circle c, negative radius included, Circle.from_string
\* gives back an equal circle from str(c) and from the text of the field
\* writer.
C8_CircleRoundTrip ==
    (field = "circle" /\ writer \in {"__str__", "get_prep_value"} /\ reader = "from_string") =>
        py.exc = "" /\ Circle_eq(py.val, value.val)

NegativeCircleTexts ==
    {CircleText(x, x, <<"-", "1", ".", "5">>, b) :
        x \in {<<"1">>, <<"-", "1", ".", "5">>}, b \in Blanks}

\* C9: Circle.from_string and CircleField.to_python return a Circle for text
\* with a negative radius; CircleField.get_prep_value raises "Circle radius
\* cannot be negative" for every Circle of radius < 0 and produces text for
\* every Circle of radius >= 0.
C9_NegativeRadius ==
    /\ (field = "circle" /\ writer = "db" /\ reader # ""
            /\ prep.val.text \in NegativeCircleTexts) =>
            py.exc = "" /\ py.val.tag = "Circle" /\ py.val.nums[1] = FNeg
    /\ (field = "circle" /\ writer = "get_prep_value") =>
            IF value.val.nums[1].s = -1 /\ value.val.nums[1].m # 0
            THEN prep = Raise("ValueError", "Circle radius cannot be negative")
            ELSE prep.exc = "" /\ prep.val.tag = "str"

\* the write of a circle of radius -1.5 has been refused
C9_NegativeRadiusRefused ==
    /\ field = "circle" /\ writer = "get_prep_value"
    /\ value.val.nums[1] = FNeg
    /\ prep.exc = "ValueError"

\* C10: Circle(r) has center (0, 0) and radius r; Circle(Point(x, y), r) and
\* Circle(x, y, r) are equal circles of center (x, y) and radius r; a call
\* with any other number of arguments raises TypeError.
C10_CircleConstruction ==
    (field = "circle" /\ value # NoCall) =>
        LET a == call_args
            n == Len(a)
        IN  /\ (n = 1 /\ IsNum(a[1])) =>
                    value = Return(CircleV(Point(FZero, FZero), a[1].nums[1]))
            /\ (n = 2 /\ a[1].tag = "Point" /\ IsNum(a[2])) =>
                    /\ value = Return(CircleV(a[1].pts[1], a[2].nums[1]))
                    /\ Circle_eq(value.val, Circle(<<NumV(a[1].pts[1].x),
                                                     NumV(a[1].pts[1].y), a[2]>>).val)
            /\ (n = 3 /\ \A i \in 1..3 : IsNum(a[i])) =>
                    value = Return(CircleV(Point(a[1].nums[1], a[2].nums[1]), a[3].nums[1]))
            /\ (n \notin {1, 2, 3}) => value.exc = "TypeError" /\ value.val = None
            /\ value.exc = "" => n \in {1, 2, 3}

\* a call of Circle with 4 arguments has raised TypeError
C10_FourArgumentsRejected ==
    /\ field = "circle" /\ Len(call_args) = 4
    /\ value.exc = "TypeError"

\* the text Point.from_string was called with
PointArg == call_args[1].text

\* Point.from_string has been called on a text
PointParsed == field = "point" /\ call_args # <<>> /\ call_args[1].tag = "str"

\* C11 as stated: Point.from_string succeeds only when the whole input text
\* is "( num , num )"; any character before or after the point makes it
\* fail.
C11_WholeTextOnly ==
    PointParsed => (value.exc = "" => PointArg \in GoodPointTexts)

\* C11 amended: Point.from_string succeeds exactly when the text without its
\* leading and trailing blanks is "( num , num )", and raises ValueError on
\* text with other characters before or after the point, a missing
\* parenthesis or a malformed number.
C11_StrippedTextOnly ==
    PointParsed =>
        IF PointArg \in GoodPointTexts \cup PaddedPointTexts
        THEN value.exc = "" /\ value.val.tag = "Point"
        ELSE value.exc = "ValueError" /\ value.val = None

\* Point.from_string("(1,1)x") has raised
C11_TrailingCharacterRejected ==
    /\ PointParsed
    /\ PointArg = <<"(", "1", ",", "1", ")", "x">>
    /\ value.exc = "ValueError"

\* C12: for every valid point text t, Point.from_string(str(p)) with
\* p = Point.from_string(t) succeeds and equals p, and formatting the
\* result again gives the same text.
C12_PointReparse ==
    (PointParsed /\ value.exc = "" /\ writer = "__str__" /\ reader = "from_string") =>
        /\ py.exc = ""
        /\ Point_eq(py.val.pts[1], value.val.pts[1])
        /\ Point_str(py.val.pts[1]) = prep.val.text

\* C13: every parser accepts the same numerals: an optional "-", then digits
\* with an optional fraction, or ".digits" alone; no exponent and no "+".
\* A text whose first coordinate is written n is parsed by the parser of any
\* field exactly when Point.from_string parses "(n,1)".
C13_SameNumerals ==
    \A n \in ProbeNumerals :
        (writer = "input" /\ reader # "" /\ prep.val.text = ProbeText(field, n)) =>
            /\ py.exc = "" <=> Point_from_string(ProbeText("point", n)).exc = ""
            /\ py.exc = "" <=> n \notin BadNumerals

\* the value the base text of a field stands for
BaseValue(f) ==
    CASE f = "point"  -> PointV(Point(FNeg, F1))
      [] f = "line"   -> LineV(FNeg, F1, F1)
      [] f = "circle" -> CircleV(Point(FNeg, F1), F1)

\* C14: for Point, Line and Circle text, a blank put in around a comma or
\* just inside or outside a bracket of a valid text leaves the text
\* parseable, to the same value.
C14_BlanksIgnored ==
    \A f \in {"point", "line", "circle"} :
        (field = f /\ writer = "input" /\ reader # "" /\ prep.val.text \in SpacedTexts(f)) =>
            py = Return(BaseValue(f))

\* C15: to_python of a segment, box, path or polygon field raises on text
\* that is not of the field's grammar (characters between or around the
\* points, a group with a malformed number, a wrong number of groups) and
\* builds no value from a part of the text.
C15_MalformedTextRejected ==
    \A f \in MultiPointFields :
        (field = f /\ writer = "input" /\ reader = "to_python"
                /\ prep.val.text \in MalformedTexts(f)) =>
            py.exc # "" /\ py.val = None

\* db_type has been called with a connection
DbTypeCalled == column_type # NoCall /\ connection # None

\* C16: db_type(connection) of every field returns the field's type name
\* when the connection's ENGINE setting contains "postgresql", "postgis" or
\* "psycopg2" in any case of letters, and raises FieldError without a type
\* for every other engine.
C16_PostgresOnly ==
    DbTypeCalled =>
        IF "ENGINE" \in DOMAIN connection.settings_dict
                /\ connection.settings_dict["ENGINE"] \in PostgresEngines
        THEN /\ column_type.exc = ""
             /\ column_type.val.tag = "str"
             /\ \E f \in Fields : f = field /\ column_type.val.text = TypeName(f)
        ELSE column_type.exc = "FieldError" /\ column_type.val = None

\* db_type of a field on an engine spelled "PostgreSQL" has returned the type
C16_MixedCaseEngineAccepted ==
    /\ DbTypeCalled
    /\ connection = Connection([key \in {"ENGINE"} |-> <<"P", "o", "s", "t", "g", "r", "e", "S", "Q", "L">>])
    /\ column_type.exc = ""

\* the texts of the points assigned, joined by ","
AssignedText == Join([i \in 1..Len(Assigned) |-> Point_str(Assigned[i])], <<",">>)

\* C17: PathField.get_prep_value wraps the same comma-joined points in
\* "(...)" when the field is closed and in "[...]" when it is not, refuses
\* fewer than 2 points either way, and PathField.to_python returns the same
\* points for the "[...]" and the "(...)" form whatever the field's flag is.
C17_ClosedIsRenderingOnly ==
    /\ (field = "path" /\ writer = "get_prep_value") =>
            /\ prep.exc = PathField_get_prep_value(~closed, value.val).exc
            /\ prep.exc # "" <=> Len(Assigned) < 2
            /\ prep.exc = "" =>
                    prep.val.text = IF closed THEN <<"(">> \o AssignedText \o <<")">>
                                    ELSE <<"[">> \o AssignedText \o <<"]">>
    /\ \A n \in 2..MaxLen :
            (field = "path" /\ writer = "input" /\ reader = "to_python"
                    /\ prep.val.text \in {PathText(n, TRUE), PathText(n, FALSE)}) =>
                py = Return(ListV(NumberedPoints(n)))

\* a closed path has been written in parentheses
C17_ClosedPathWritten ==
    /\ field = "path" /\ closed /\ writer = "get_prep_value"
    /\ prep.exc = "" /\ prep.val.text[1] = "("
    /\ Len(Assigned) = 2

\* the number of "(" in the text t
OpenCount(t) == Cardinality({i \in 1..Len(t) : t[i] = "("})

\* C18: the tokens PointMixin.SPLIT_RE extracts never contain a second "(",
\* and for points wrapped in an outer "(", "[" or no bracket, with or
\* without a blank after the outer bracket, they are exactly the point
\* groups.
C18_SplitIntoPointGroups ==
    (field = "PointMixin" /\ reader = "findall") =>
        /\ \A i \in 1..Len(py.val) : OpenCount(py.val[i]) = 1
        /\ \A n \in 1..MaxLen, o \in OuterBrackets, b \in Blanks :
                prep.val.text = SplitText(n, o, b) => py.val = NumberedGroups(n)

\* C19: PointMixin.to_python raises on text with no point group in it, such
\* as "" and "[]", and on a value that is neither text nor iterable; it
\* returns no empty list for text.
C19_NoEmptyListFromText ==
    (field = "PointMixin" /\ cleaned # NoCall) =>
        /\ raw.val.tag = "str" => cleaned # Return(ListV(<<>>))
        /\ (raw.val.tag = "str" /\ raw.val.text \in ZeroGroupTexts) => cleaned.exc # ""
        /\ raw.val.tag \in {"float", "Point"} => cleaned.exc # ""

\* C20: for every field and every value v its to_python accepts,
\* get_prep_value(v) succeeds and equals get_prep_value(to_python(v)), unless
\* get_prep_value refuses to_python(v) itself.
C20_WriteAcceptsWhatReadAccepts ==
    (field \in Fields /\ cleaned # NoCall /\ saved # NoCall /\ cleaned.exc = "") =>
        (Field_get_prep_value(field, closed, cleaned.val).exc = "" =>
            saved = Field_get_prep_value(field, closed, cleaned.val))

\* a call that returned a Line whose stored A and B are both 0.0
Degenerate(r) ==
    r.exc = "" /\ r.val.tag = "Line" /\ IsZero(r.val.nums[1]) /\ IsZero(r.val.nums[2])

\* the texts of the lines whose A and B are both 0.0
DegenerateTexts ==
    {Line_str(LineV(A, B, C)) : A \in {FZero, FNegZ}, B \in {FZero, FNegZ}, C \in Coefficients}

\* C21: no entry point yields a Line whose stored A and B are both 0.0:
\* neither Line(A, B, C), nor Line.from_string, nor LineField.to_python,
\* nor LineField.get_prep_value on a tuple or list of three coefficients,
\* whether the coefficients are numbers or numerals given as text.
C21_NoDegenerateLine ==
    field = "line" =>
        /\ ~Degenerate(value)
        /\ ~Degenerate(py)
        /\ ~Degenerate(cleaned)
        /\ (saved.exc = "" /\ saved.val.tag = "str") => saved.val.text \notin DegenerateTexts

\* C21 restricted to coefficients given as numbers
C21_NumbersRefused ==
    (field = "line" /\ (raw = NoCall \/ raw.val.elem # "str")) =>
        /\ ~Degenerate(value)
        /\ ~Degenerate(py)
        /\ ~Degenerate(cleaned)
        /\ (saved.exc = "" /\ saved.val.tag = "str") => saved.val.text \notin DegenerateTexts

====
